---- MODULE Spec2Model ----
(***************************************************************************)
(* Todo-List: the Overdue status policy (frontend/src/services/            *)
(* taskService.ts), the Kanban board's drag handler (frontend/src/         *)
(* components/kanban/KanbanBoard.tsx), the edit form's submit handler      *)
(* (frontend/src/components/CreateTaskForm.tsx), the date helpers they     *)
(* share (frontend/src/utils/dateUtils.ts) and the backend update they     *)
(* call (backend/src/services/todo.service.ts).                            *)
(*                                                                         *)
(* Time is counted in whole ticks (one tick = one hour).  An instant is    *)
(* the number of ticks since the epoch, the value Date.getTime() returns.  *)
(* A wall-clock reading is an instant plus the UTC offset of the zone it   *)
(* is read in.  Daylight saving is left out: Australia/Melbourne is at its *)
(* standard offset throughout.                                             *)
(***************************************************************************)
EXTENDS Integers, Sequences, FiniteSets, TLC

VARIABLES
    now,            \* the true current instant: new Date().getTime(), Date.now()
    browserOffset,  \* UTC offset of the zone the browser runs in
    store,          \* the tasks table: id -> row
    tasks,          \* the page's useState<Task[]> list (KanbanBoard, TasksTable)
    loading,        \* the page's loading flag
    error,          \* the page's error text is set
    inflight,       \* handleDragEnd calls suspended at await updateTask(...)
    sent,           \* number of updateTask(id, body) calls the views have made
    last,           \* the last step: the handler, its inputs, the toast it showed
    ptask,          \* Status Policy: the task under judgement
    markResult,     \* Status Policy: shouldMarkTaskAsOverdue(ptask, now)
    resetResult,    \* Status Policy: shouldResetOverdueStatus(ptask, now)
    planned,        \* Status Policy: the updates normalizeOverdueTasks plans
    editingTask,    \* CreateTaskForm's editingTask prop
    formData,       \* CreateTaskForm's field values (TaskFormData)
    pass,           \* the getAllTasks call a view is waiting for
    handlers,       \* backend controller calls suspended at an await
    nextId,         \* the tasks table's AUTO_INCREMENT counter
    table           \* TasksTable's paging, sorting and delete-dialog state

vars == << now, browserOffset, store, tasks, loading, error, inflight, sent,
           last, ptask, markResult, resetResult, planned, editingTask,
           formData, pass, handlers, nextId, table >>

(***************************************************************************)
(* Bounds.                                                                 *)
(***************************************************************************)
\* Instants run from 0 to MaxTime; the clock starts at 1.
MaxTime == 2
\* Due instants of the rows of the tasks table run from 1 to MaxDue.
MaxDue == 1
\* Rows in the tasks table (ids 1..NumTasks).
NumTasks == 1
\* Update requests the board client issues in one run.
MaxSent == 2

(***************************************************************************)
(* Program constants.                                                      *)
(***************************************************************************)
\* MELBOURNE_TIMEZONE = 'Australia/Melbourne': UTC+10 (standard time).
MelbourneOffset == 10

\* Zones a browser may run in: Melbourne itself, UTC, Auckland (UTC+12).
BrowserOffsets == {MelbourneOffset, 0, 12}

Instants == 0..MaxTime
Statuses == {"Pending", "In Progress", "Completed", "Archived", "Overdue"}

(***************************************************************************)
(* due_date strings.  A string is modelled by what the date helpers can    *)
(* tell about it:                                                          *)
(*   absent  undefined, null or ''                                         *)
(*   blank   only white space                                              *)
(*   local   'YYYY-MM-DD HH:mm:ss' / 'YYYY-MM-DDTHH:mm[:ss]', no offset:   *)
(*           what the DATETIME column returns (dateStrings) - wall is the  *)
(*           reading it spells                                             *)
(*   input   'YYYY-MM-DDTHH:mm', no offset: what a datetime-local control  *)
(*           holds - wall is the reading it spells                         *)
(*   zoned   the same followed by Z or +hh:mm - off is that offset         *)
(*   other   any other text ('soon'): Date cannot parse it                 *)
(***************************************************************************)
Absent == [kind |-> "absent", wall |-> 0, off |-> 0]
Blank == [kind |-> "blank", wall |-> 0, off |-> 0]
Garbage == [kind |-> "other", wall |-> 0, off |-> 0]
LocalString(w) == [kind |-> "local", wall |-> w, off |-> 0]
InputString(w) == [kind |-> "input", wall |-> w, off |-> 0]
ZonedString(w, o) == [kind |-> "zoned", wall |-> w, off |-> o]

\* The strings the DATETIME column hands back: NULL or a Melbourne reading.
StoredDueDates == {Absent} \cup {LocalString(t + MelbourneOffset) : t \in 1..MaxDue}
\* Every kind of string a Task object can carry.
DueDates ==
    StoredDueDates \cup {Blank, Garbage}
        \cup {ZonedString(t, 0) : t \in Instants}
        \cup {ZonedString(t + MelbourneOffset, MelbourneOffset) : t \in Instants}

\* A JavaScript Date: nan is Number.isNaN(date.getTime()), ms is getTime().
InvalidDate == [nan |-> TRUE, ms |-> 0]
DateAt(t) == [nan |-> FALSE, ms |-> t]

\* new Date(string): the instant an offset-bearing string names; an offset-less
\* reading is taken in the browser's zone; anything else is an Invalid Date.
NewDate(s) ==
    CASE s.kind = "zoned" -> DateAt(s.wall - s.off)
      [] s.kind = "local" \/ s.kind = "input" -> DateAt(s.wall - browserOffset)
      [] OTHER -> InvalidDate

(***************************************************************************)
(* frontend/src/utils/dateUtils.ts                                         *)
(***************************************************************************)
hasExplicitTimezone(s) == s.kind = "zoned"

\* The offset of Australia/Melbourne at the given instant (here in ticks).
getTimezoneOffsetMinutes(date) == MelbourneOffset

\* undefined is modelled by Absent.
normalizeToMelbourneIso(dateString) ==
    IF dateString.kind = "absent" THEN Absent
    ELSE IF dateString.kind = "blank" THEN Absent
    ELSE IF hasExplicitTimezone(dateString) THEN dateString
    ELSE IF dateString.kind \notin {"local", "input"} THEN dateString
    ELSE ZonedString(dateString.wall,
                     getTimezoneOffsetMinutes(DateAt(dateString.wall)))

\* buildParts spells the Melbourne reading of the instant; '' is Absent.
toMelbourneDateTimeLocal(dateString) ==
    LET normalized == normalizeToMelbourneIso(dateString)
    IN  IF normalized.kind = "absent" THEN Absent
        ELSE LET date == NewDate(normalized)
             IN  IF date.nan THEN Absent
                 ELSE InputString(date.ms + getTimezoneOffsetMinutes(date))

\* Only the 'YYYY-MM-DDTHH:mm' shape gets Melbourne's offset appended.
fromMelbourneLocalInputToIso(localInput) ==
    IF localInput.kind = "absent" THEN Absent
    ELSE IF localInput.kind # "input" THEN localInput
    ELSE ZonedString(localInput.wall,
                     getTimezoneOffsetMinutes(DateAt(localInput.wall)))

\* now.toLocaleString('en-US', {timeZone}) spells the Melbourne reading of now
\* without an offset ('11/3/2026, 9:15:00 PM'); new Date(...) of that text reads
\* it in the browser's zone.
getMelbourneTime == NewDate(LocalString(now + MelbourneOffset))

(***************************************************************************)
(* frontend/src/services/taskService.ts: the Status Policy                 *)
(***************************************************************************)
isActiveStatus(status) == status = "Pending" \/ status = "In Progress"

\* !task.id: an id that is missing or 0.
NoId(task) == task.id = 0

shouldMarkTaskAsOverdueLate(task, t) ==
    IF NoId(task) THEN FALSE
    ELSE IF task.due_date.kind = "absent" THEN FALSE
    ELSE IF ~isActiveStatus(task.status) THEN FALSE
    ELSE LET normalizedDueDate == normalizeToMelbourneIso(task.due_date)
         IN  IF normalizedDueDate.kind = "absent" THEN FALSE
             ELSE LET dueDate == NewDate(normalizedDueDate)
                  IN  IF dueDate.nan THEN FALSE
                      ELSE dueDate.ms <= t

shouldMarkTaskAsOverdue(task, t) ==
    IF NoId(task) THEN FALSE
    ELSE IF task.due_date.kind = "absent" THEN FALSE
    ELSE IF ~isActiveStatus(task.status) THEN FALSE
    ELSE LET normalizedDueDate == normalizeToMelbourneIso(task.due_date)
         IN  IF normalizedDueDate.kind = "absent" THEN FALSE
             ELSE LET dueDate == NewDate(normalizedDueDate)
                  IN  IF dueDate.nan THEN FALSE
                      ELSE dueDate.ms < t

shouldResetOverdueStatusStrict(task, t) ==
    IF NoId(task) THEN FALSE
    ELSE IF task.status # "Overdue" THEN FALSE
    ELSE IF task.due_date.kind = "absent" THEN FALSE
    ELSE LET normalizedDueDate == normalizeToMelbourneIso(task.due_date)
         IN  IF normalizedDueDate.kind = "absent" THEN FALSE
             ELSE LET dueDate == NewDate(normalizedDueDate)
                  IN  IF dueDate.nan THEN FALSE
                      ELSE dueDate.ms > t

shouldResetOverdueStatus(task, t) ==
    IF NoId(task) THEN FALSE
    ELSE IF task.status # "Overdue" THEN FALSE
    ELSE IF task.due_date.kind = "absent" THEN FALSE
    ELSE LET normalizedDueDate == normalizeToMelbourneIso(task.due_date)
         IN  IF normalizedDueDate.kind = "absent" THEN FALSE
             ELSE LET dueDate == NewDate(normalizedDueDate)
                  IN  IF dueDate.nan THEN FALSE
                      ELSE dueDate.ms >= t

\* tasks.filter(pred): the subsequence of the tasks pred holds for.
RECURSIVE Filter(_, _, _)
Filter(list, t, mark) ==
    IF list = << >> THEN << >>
    ELSE LET keep == IF mark THEN shouldMarkTaskAsOverdue(Head(list), t)
                     ELSE shouldResetOverdueStatus(Head(list), t)
         IN  (IF keep THEN << Head(list) >> ELSE << >>) \o Filter(Tail(list), t, mark)

PlannedUpdatesEveryOverdue(list, t) ==
    LET overdueCandidates == Filter(list, t, TRUE)
        resetCandidates == SelectSeq(list, LAMBDA task : task.status = "Overdue")
    IN  [i \in 1..Len(overdueCandidates) |->
            [id |-> overdueCandidates[i].id, body |-> [status |-> "Overdue"]]]
        \o
        [i \in 1..Len(resetCandidates) |->
            [id |-> resetCandidates[i].id, body |-> [status |-> "Pending"]]]

PlannedUpdatesNoReset(list, t) ==
    LET overdueCandidates == Filter(list, t, TRUE)
    IN  [i \in 1..Len(overdueCandidates) |->
            [id |-> overdueCandidates[i].id, body |-> [status |-> "Overdue"]]]

\* The requests normalizeOverdueTasks builds: one { status: desiredStatus } per
\* candidate, the overdue candidates first.
PlannedUpdates(list, t) ==
    LET overdueCandidates == Filter(list, t, TRUE)
        resetCandidates == Filter(list, t, FALSE)
    IN  [i \in 1..Len(overdueCandidates) |->
            [id |-> overdueCandidates[i].id, body |-> [status |-> "Overdue"]]]
        \o
        [i \in 1..Len(resetCandidates) |->
            [id |-> resetCandidates[i].id, body |-> [status |-> "Pending"]]]

(***************************************************************************)
(* Tasks.  A Task object: the fields the handlers read or write.           *)
(***************************************************************************)
TitleOf(i) == IF i = 1 THEN "Write spec" ELSE "Task"
CodeOf(i) == IF i = 1 THEN "AB123" ELSE IF i = 2 THEN "A0002" ELSE "A0003"

Task(i, s, d) ==
    [id |-> i, title |-> TitleOf(i), status |-> s, taskcode |-> CodeOf(i),
     due_date |-> d]

\* What the views hold before anything is loaded or chosen.
NoTask == Task(0, "Pending", Absent)
NoForm == [title |-> "", status |-> "Pending", taskcode |-> "", due_date |-> Absent]
NoToast == [level |-> "none", text |-> "none"]
Idle == [op |-> "none"]
\* No getAllTasks call is running.
NoPass == [phase |-> "idle", input |-> << >>, t |-> 0, updates |-> << >>,
           outcome |-> << >>, wasEdited |-> {}]
\* TasksTable's state when it mounts (useState, lines 51-63).
NoTable == [currentPage |-> 1, rowsPerPage |-> 10, sortField |-> "none",
            sortDirection |-> "asc", showDeleteModal |-> FALSE,
            taskToDelete |-> NoTask, isDeleting |-> FALSE]

(***************************************************************************)
(* Specification SpecPolicy: the Status Policy applied to one task.        *)
(***************************************************************************)
PolicyTasks == {Task(1, s, d) : s \in Statuses, d \in DueDates}

PolicyInit ==
    /\ now \in 1..MaxTime
    /\ browserOffset \in BrowserOffsets
    /\ ptask \in PolicyTasks
    /\ markResult = FALSE
    /\ resetResult = FALSE
    /\ planned = << >>
    /\ last = Idle
    /\ store = << >>
    /\ tasks = << >>
    /\ loading = FALSE
    /\ error = FALSE
    /\ inflight = {}
    /\ sent = 0
    /\ editingTask = NoTask
    /\ formData = NoForm
    /\ pass = NoPass
    /\ table = NoTable
    /\ handlers = {}
    /\ nextId = NumTasks + 1

\* normalizeOverdueTasks([ptask]) up to the requests it builds (lines 73-85).
EvalPolicy ==
    /\ last.op = "none"
    /\ markResult' = shouldMarkTaskAsOverdue(ptask, now)
    /\ resetResult' = shouldResetOverdueStatus(ptask, now)
    /\ planned' = PlannedUpdates(<< ptask >>, now)
    /\ last' = [op |-> "policy"]
    /\ UNCHANGED << table, pass, handlers, nextId, now, browserOffset, store, tasks, loading, error, inflight,
                    sent, ptask, editingTask, formData >>

PolicyNext == EvalPolicy

SpecPolicy == PolicyInit /\ [][PolicyNext]_vars

(***************************************************************************)
(* The instant a due_date string names, as the specification reads it: an  *)
(* offset-less reading is a Melbourne reading.                             *)
(***************************************************************************)
ParsesToInstant(d) == d.kind \in {"local", "input", "zoned"}
InstantOf(d) == IF d.kind = "zoned" THEN d.wall - d.off ELSE d.wall - MelbourneOffset
DuePassed(d, t) == ParsesToInstant(d) /\ InstantOf(d) < t

\* C1: shouldMarkTaskAsOverdue(task, now) is true exactly when the task is
\* Pending or In Progress and its due_date is present, parses to a valid
\* instant, and that instant is strictly before now.
C1_MarkOverdueIff ==
    last.op = "policy" =>
        (markResult <=>
            /\ ptask.status \in {"Pending", "In Progress"}
            /\ ParsesToInstant(ptask.due_date)
            /\ InstantOf(ptask.due_date) < now)

C1_Witness ==
    /\ last.op = "policy"
    /\ markResult
    /\ ptask.due_date.kind = "local"

\* C2: shouldResetOverdueStatus(task, now) is true exactly when the task is
\* Overdue and its due_date is present, parses to a valid instant, and that
\* instant is at or after now; the update planned for such a task sets
\* status Pending.
C2_ResetOverdueIff ==
    last.op = "policy" =>
        /\ resetResult <=>
            /\ ptask.status = "Overdue"
            /\ ParsesToInstant(ptask.due_date)
            /\ InstantOf(ptask.due_date) >= now
        /\ resetResult =>
            planned = << [id |-> ptask.id, body |-> [status |-> "Pending"]] >>

C2_Witness ==
    /\ last.op = "policy"
    /\ resetResult
    /\ InstantOf(ptask.due_date) = now
    /\ planned # << >>

(***************************************************************************)
(* backend/src/services/todo.service.ts: the rows of the tasks table       *)
(***************************************************************************)
\* taskService.updateTask(id, task): the fields the body carries replace the
\* row's; a body is a record holding only the fields submitted.
\* The due_date DATETIME column (session zone Melbourne) keeps the reading of
\* the instant a written string names and hands it back without an offset.
DatetimeColumn(s) ==
    IF s.kind = "zoned" THEN LocalString(s.wall - s.off + MelbourneOffset)
    ELSE IF s.kind = "input" THEN LocalString(s.wall)
    ELSE s

replaceTask(rows, id, body) ==
    IF id \notin DOMAIN rows THEN rows
    ELSE [rows EXCEPT ![id] =
            [f \in DOMAIN rows[id] |->
                IF f \in DOMAIN body THEN body[f]
                ELSE IF f = "status" THEN "Pending"
                ELSE rows[id][f]]]

updateTask(rows, id, body) ==
    IF id \notin DOMAIN rows THEN rows
    ELSE [rows EXCEPT ![id] =
            [f \in DOMAIN rows[id] |->
                IF f \notin DOMAIN body THEN rows[id][f]
                ELSE IF f = "due_date" THEN DatetimeColumn(body[f])
                ELSE body[f]]]

\* taskService.getAllTasks(): SELECT * FROM tasks ORDER BY created_at DESC,
\* the newest (highest id) first.
RECURSIVE RowsFrom(_, _)
RowsFrom(rows, i) ==
    IF i = 0 THEN << >>
    ELSE (IF i \in DOMAIN rows THEN << rows[i] >> ELSE << >>) \o RowsFrom(rows, i - 1)

getAllRows(rows) == RowsFrom(rows, NumTasks)

(***************************************************************************)
(* frontend/src/services/taskService.ts: normalizeOverdueTasks             *)
(***************************************************************************)
\* The rows after the planned updates numbered in ok have succeeded.
RECURSIVE ApplyUpdates(_, _, _, _)
ApplyUpdates(rows, updates, ok, i) ==
    IF i > Len(updates) THEN rows
    ELSE ApplyUpdates(IF i \in ok THEN updateTask(rows, updates[i].id, updates[i].body)
                      ELSE rows,
                      updates, ok, i + 1)

\* The list normalizeOverdueTasks returns (lines 96-116): the server's task
\* where the update succeeded, else the local fallback, else the task itself.
NormalizedList(list, t, updates, ok, rowsAfter) ==
    [k \in 1..Len(list) |->
        LET task == list[k]
            updated == \E i \in ok : updates[i].id = task.id
        IN  IF ~NoId(task) /\ updated THEN rowsAfter[task.id]
            ELSE IF shouldMarkTaskAsOverdue(task, t) THEN [task EXCEPT !.status = "Overdue"]
            ELSE IF shouldResetOverdueStatus(task, t) THEN [task EXCEPT !.status = "Pending"]
            ELSE task]

(***************************************************************************)
(* frontend/src/components/kanban/KanbanBoard.tsx                          *)
(***************************************************************************)
isClosedStatus(status) == status = "Completed" \/ status = "Archived"

hasDueDatePassed(task) ==
    LET normalized == normalizeToMelbourneIso(task.due_date)
    IN  IF normalized.kind = "absent" THEN FALSE
        ELSE LET dueDate == NewDate(normalized)
             IN  ~dueDate.nan /\ dueDate.ms < getMelbourneTime.ms

\* draggableId: task.id.toString(), or 'task-<index>-<status>' for a card
\* without an id.  parseInt(draggableId, 10) is NaN for the latter.
CardKey(i) == [numeric |-> TRUE, n |-> i]
PlaceholderKey == [numeric |-> FALSE, n |-> 0]
DraggableIds == {CardKey(i) : i \in 1..(NumTasks + 1)} \cup {PlaceholderKey}
NoDestination == "null"

\* tasks.find((t) => t.id === taskId): its index in the list, 0 when none.
FindTask(list, taskId) ==
    IF \E k \in 1..Len(list) : list[k].id = taskId
    THEN CHOOSE k \in 1..Len(list) :
            /\ list[k].id = taskId
            /\ \A j \in 1..(k - 1) : list[j].id # taskId
    ELSE 0

\* The guard rails of handleDragEnd (lines 112-130): the toast of the first
\* rule that refuses the move, NoToast when none does.
GuardRailsNoClosedRule(task, newStatus) ==
    IF newStatus = "Overdue" /\ isActiveStatus(task.status) /\ ~hasDueDatePassed(task)
    THEN [level |-> "error", text |-> "not overdue yet"]
    ELSE IF isClosedStatus(task.status) /\ isActiveStatus(newStatus) /\ hasDueDatePassed(task)
    THEN [level |-> "warn", text |-> "update due date before reopening"]
    ELSE IF task.status = "Overdue" /\ isActiveStatus(newStatus) /\ hasDueDatePassed(task)
    THEN [level |-> "warn", text |-> "update due date before returning"]
    ELSE NoToast

GuardRails(task, newStatus) ==
    IF newStatus = "Overdue" /\ isClosedStatus(task.status)
    THEN [level |-> "error", text |-> "closed tasks cannot be moved to Overdue"]
    ELSE IF newStatus = "Overdue" /\ isActiveStatus(task.status) /\ ~hasDueDatePassed(task)
    THEN [level |-> "error", text |-> "not overdue yet"]
    ELSE IF isClosedStatus(task.status) /\ isActiveStatus(newStatus) /\ hasDueDatePassed(task)
    THEN [level |-> "warn", text |-> "update due date before reopening"]
    ELSE IF task.status = "Overdue" /\ isActiveStatus(newStatus) /\ hasDueDatePassed(task)
    THEN [level |-> "warn", text |-> "update due date before returning"]
    ELSE NoToast

\* source.droppableId: the column the card was drawn in, the status of its
\* task (a card with no task in the list sits in no column).
SourceColumn(list, draggableId) ==
    IF draggableId.numeric /\ FindTask(list, draggableId.n) # 0
    THEN list[FindTask(list, draggableId.n)].status
    ELSE "none"

\* The early returns of handleDragEnd (lines 91-111): TRUE when the drop is
\* ignored.
IgnoredDropNoSameStatus(list, draggableId, destination, sameIndex) ==
    \/ destination = NoDestination
    \/ destination = SourceColumn(list, draggableId) /\ sameIndex
    \/ ~draggableId.numeric
    \/ FindTask(list, draggableId.n) = 0

IgnoredDrop(list, draggableId, destination, sameIndex) ==
    \/ destination = NoDestination
    \/ destination = SourceColumn(list, draggableId) /\ sameIndex
    \/ ~draggableId.numeric
    \/ FindTask(list, draggableId.n) = 0
    \/ list[FindTask(list, draggableId.n)].status = destination

\* What a call of handleDragEnd is remembered by: the task it found (NoTask
\* when it found none), the status asked for, and the toast it showed.
DragRecord(outcome, task, newStatus, shown) ==
    [op |-> "drag", outcome |-> outcome, id |-> task.id, from |-> task.status,
     target |-> newStatus, toast |-> shown]

\* tasks.map((t) => (t.id === task.id ? { ...t, status: newStatus } : t))
WithStatus(list, id, newStatus) ==
    [k \in 1..Len(list) |->
        IF list[k].id = id THEN [list[k] EXCEPT !.status = newStatus] ELSE list[k]]

\* handleDragEnd up to its await (lines 89-134).  An accepted move leaves the
\* call suspended in inflight with the request it sent and its closure's tasks.
DragEnd(draggableId, destination, sameIndex) ==
    /\ ~loading /\ ~error
    /\ IF IgnoredDrop(tasks, draggableId, destination, sameIndex)
       THEN /\ last' = DragRecord("ignored",
                                  IF draggableId.numeric /\ FindTask(tasks, draggableId.n) # 0
                                  THEN tasks[FindTask(tasks, draggableId.n)] ELSE NoTask,
                                  destination, NoToast)
            /\ UNCHANGED << tasks, inflight, sent >>
       ELSE LET task == tasks[FindTask(tasks, draggableId.n)]
                newStatus == destination
                refusal == GuardRails(task, newStatus)
            IN  IF refusal # NoToast
                THEN /\ last' = DragRecord("rejected", task, newStatus, refusal)
                     /\ UNCHANGED << tasks, inflight, sent >>
                ELSE /\ sent < MaxSent
                     /\ tasks' = WithStatus(tasks, task.id, newStatus)
                     /\ sent' = sent + 1
                     /\ inflight' = inflight \cup
                            {[rid |-> sent + 1, id |-> task.id,
                              body |-> [status |-> newStatus], snapshot |-> tasks]}
                     /\ last' = DragRecord("accepted", task, newStatus, NoToast)
    /\ UNCHANGED << table, pass, handlers, nextId, now, browserOffset, store, loading, error, ptask, markResult,
                    resetResult, planned, editingTask, formData >>

\* handleDragEnd after its await, the request fulfilled (line 135): the
\* backend has applied the update and answered 200.
DragSettled(r) ==
    /\ r \in inflight
    /\ r.id \in DOMAIN store
    /\ store' = updateTask(store, r.id, r.body)
    /\ inflight' = inflight \ {r}
    /\ last' = [op |-> "settled", rid |-> r.rid,
                toast |-> [level |-> "success", text |-> "status updated"]]
    /\ UNCHANGED << table, pass, handlers, nextId, now, browserOffset, tasks, loading, error, sent, ptask,
                    markResult, resetResult, planned, editingTask, formData >>

\* The list handleDragEnd's catch block sets (line 137): its closure's tasks.
RevertedKeepOptimistic(r) == tasks

Reverted(r) == r.snapshot

\* toast.error(getErrorMessage(error, 'Failed to update task status. ...'))
FailureToast == [level |-> "error", text |-> "failed to update task status"]

\* handleDragEnd after its await, the request rejected (lines 136-139): the
\* network failed or the backend answered 4xx/5xx; the table is as it was.
DragFailed(r) ==
    /\ r \in inflight
    /\ tasks' = Reverted(r)
    /\ inflight' = inflight \ {r}
    /\ last' = [op |-> "failed", rid |-> r.rid, toast |-> FailureToast]
    /\ UNCHANGED << table, pass, handlers, nextId, now, browserOffset, store, loading, error, sent, ptask,
                    markResult, resetResult, planned, editingTask, formData >>

\* fetchTasks (lines 57-68) with getAllTasks and normalizeOverdueTasks: the
\* GET answers with the rows, every planned update settles (those in ok
\* succeed), and the board takes the normalized list.
FetchTasks ==
    /\ loading
    /\ \E ok \in SUBSET (1..NumTasks) :
        LET list == getAllRows(store)
            updates == PlannedUpdates(list, now)
            rowsAfter == ApplyUpdates(store, updates, ok, 1)
        IN  /\ ok \subseteq 1..Len(updates)
            /\ store' = rowsAfter
            /\ planned' = updates
            /\ tasks' = NormalizedList(list, now, updates, ok, rowsAfter)
    /\ loading' = FALSE
    /\ last' = [op |-> "fetch"]
    /\ UNCHANGED << table, pass, handlers, nextId, now, browserOffset, error, inflight, sent, ptask, markResult,
                    resetResult, editingTask, formData >>

\* fetchTasks when GET /tasks fails (lines 63-67).
FetchFailed ==
    /\ loading
    /\ loading' = FALSE
    /\ error' = TRUE
    /\ last' = [op |-> "fetch failed"]
    /\ UNCHANGED << table, pass, handlers, nextId, now, browserOffset, store, tasks, inflight, sent, ptask,
                    markResult, resetResult, planned, editingTask, formData >>

\* The Retry button of the error panel (line 161): fetchTasks starts with
\* setLoading(true) and setError(null).
Retry ==
    /\ error
    /\ loading' = TRUE
    /\ error' = FALSE
    /\ last' = [op |-> "retry"]
    /\ UNCHANGED << table, pass, handlers, nextId, now, browserOffset, store, tasks, inflight, sent, ptask,
                    markResult, resetResult, planned, editingTask, formData >>

\* Time passes.
Tick ==
    /\ now < MaxTime
    /\ now' = now + 1
    /\ last' = [op |-> "tick"]
    /\ UNCHANGED << table, pass, handlers, nextId, browserOffset, store, tasks, loading, error, inflight, sent,
                    ptask, markResult, resetResult, planned, editingTask,
                    formData >>

(***************************************************************************)
(* Specification SpecBoard: the Kanban board over a table of NumTasks rows. *)
(***************************************************************************)
BoardInit ==
    /\ now = 1
    /\ browserOffset \in BrowserOffsets
    /\ \E f \in [1..NumTasks -> Statuses \X StoredDueDates] :
            store = [i \in 1..NumTasks |-> Task(i, f[i][1], f[i][2])]
    /\ tasks = << >>
    /\ loading = TRUE
    /\ error = FALSE
    /\ inflight = {}
    /\ sent = 0
    /\ last = Idle
    /\ ptask = NoTask
    /\ markResult = FALSE
    /\ resetResult = FALSE
    /\ planned = << >>
    /\ editingTask = NoTask
    /\ formData = NoForm
    /\ pass = NoPass
    /\ table = NoTable
    /\ handlers = {}
    /\ nextId = NumTasks + 1

BoardNext ==
    \/ FetchTasks
    \/ FetchFailed
    \/ Retry
    \/ Tick
    \/ \E d \in DraggableIds, dest \in Statuses \cup {NoDestination} :
            DragEnd(d, dest, FALSE)
    \/ \E d \in DraggableIds : DragEnd(d, SourceColumn(tasks, d), TRUE)
    \/ \E r \in inflight : DragSettled(r)
    \/ \E r \in inflight : DragFailed(r)

SpecBoard == BoardInit /\ [][BoardNext]_vars

(***************************************************************************)
(* The board's claims.  A step of handleDragEnd is the step whose new last *)
(* is a drag record; the task it found and the status asked for are in it. *)
(***************************************************************************)
\* The due_date of the task the drag record names, as the board holds it.
DueOf(list, id) == list[FindTask(list, id)].due_date

\* Nothing was sent and the in-memory list is as it was.
NothingSent == sent' = sent /\ inflight' = inflight /\ tasks' = tasks

DragStep == last'.op = "drag"
MoveStep == DragStep /\ last'.id # 0 /\ last'.target # NoDestination

\* C3: a drag to Overdue of a Completed or Archived task is rejected whatever
\* its due date: no update request is sent, the list is left unchanged.
C3_ClosedToOverdueRejected ==
    [][(MoveStep /\ last'.target = "Overdue" /\ isClosedStatus(last'.from))
            => NothingSent]_vars

C3_Witness ==
    /\ last.op = "drag"
    /\ last.outcome = "rejected"
    /\ last.target = "Overdue"
    /\ isClosedStatus(last.from)
    /\ DuePassed(DueOf(tasks, last.id), now)
    /\ sent = 0

\* C4: a drag to Overdue of a Pending or In Progress task whose due date has
\* not passed (absent, unparseable, or not before the current time) is
\* rejected: no update request is sent, the list is left unchanged.
C4_NotYetOverdueRejected ==
    [][(MoveStep /\ last'.target = "Overdue" /\ isActiveStatus(last'.from)
            /\ ~DuePassed(DueOf(tasks, last'.id), now))
            => NothingSent]_vars

\* C5: a drag to Pending or In Progress of a Completed or Archived task whose
\* due date has passed is rejected: no update request is sent, the list is
\* left unchanged.
C5_ReopenPastDueRejected ==
    [][(MoveStep /\ isActiveStatus(last'.target) /\ isClosedStatus(last'.from)
            /\ DuePassed(DueOf(tasks, last'.id), now))
            => NothingSent]_vars

\* C6: a drag to Pending or In Progress of an Overdue task whose due date has
\* passed is rejected: no update request is sent, the list is left unchanged;
\* a drag takes a task out of Overdue to an active status only when its due
\* date is absent, unparseable or not in the past.
C6_LeaveOverduePastDueRejected ==
    [][(MoveStep /\ isActiveStatus(last'.target) /\ last'.from = "Overdue")
            => /\ DuePassed(DueOf(tasks, last'.id), now) => NothingSent
               /\ last'.outcome = "accepted" => ~DuePassed(DueOf(tasks, last'.id), now)]_vars

\* The decision table of the Transition Guard: TRUE when one of its four
\* rejection rows matches.
TableRejects(current, target, duePassed) ==
    \/ target = "Overdue" /\ current \in {"Completed", "Archived"}
    \/ target = "Overdue" /\ current \in {"Pending", "In Progress"} /\ ~duePassed
    \/ current \in {"Completed", "Archived"} /\ target \in {"Pending", "In Progress"}
            /\ duePassed
    \/ current = "Overdue" /\ target \in {"Pending", "In Progress"} /\ duePassed

\* C7: a drag to a status other than the task's own that matches none of the
\* four rejection rows is accepted, and exactly one update request, carrying
\* only status = target, is issued for that task; current status, target
\* status and due-date-passed alone decide.
C7_AcceptedOtherwise ==
    [][(MoveStep /\ last'.target # last'.from
            /\ ~TableRejects(last'.from, last'.target,
                             DuePassed(DueOf(tasks, last'.id), now)))
            => /\ last'.outcome = "accepted"
               /\ sent' = sent + 1
               /\ \E r \in inflight' :
                    /\ inflight' = inflight \cup {r}
                    /\ r \notin inflight
                    /\ r.id = last'.id
                    /\ r.body = [status |-> last'.target]]_vars

\* C8: a drop on the task's own column (a reorder included), a drop with no
\* destination, and a drop of a card that matches no task send no update
\* request and leave the list unchanged.
C8_NoOpDrops ==
    [][(DragStep /\ (\/ last'.target = NoDestination
                     \/ last'.id = 0
                     \/ last'.target = last'.from))
            => NothingSent]_vars

C8_Witness ==
    /\ last.op = "drag"
    /\ last.id # 0
    /\ last.target = last.from
    /\ last.outcome = "ignored"
    /\ ~loading
    /\ Len(tasks) > 0

\* C9: an accepted drag shows the task with the target status while its
\* request is in flight; when the request fails the list is set back to the
\* list as it was just before that drag's optimistic change and an error is
\* shown; when it succeeds the list is left as it is.
C9_OptimisticThenRevert ==
    [][/\ (DragStep /\ last'.outcome = "accepted") =>
            /\ tasks'[FindTask(tasks', last'.id)].status = last'.target
            /\ \E r \in inflight' \ inflight :
                    r.id = last'.id /\ r.snapshot = tasks
            /\ \A k \in 1..Len(tasks) :
                    tasks[k].id # last'.id => tasks'[k] = tasks[k]
       /\ last'.op = "failed" =>
            /\ \E r \in inflight \ inflight' :
                    r.rid = last'.rid /\ tasks' = r.snapshot
            /\ last'.toast.level = "error"
       /\ last'.op = "settled" => tasks' = tasks]_vars

C9_Witness ==
    /\ last.op = "failed"
    /\ inflight # {}
    /\ \E r \in inflight : tasks # r.snapshot /\ tasks # WithStatus(r.snapshot, r.id, r.body.status)

\* With the browser in Melbourne's zone the four rows decide as the table says.
GuardAsTableInMelbourne ==
    [][(browserOffset = MelbourneOffset /\ MoveStep /\ last'.target # last'.from)
            => IF TableRejects(last'.from, last'.target,
                               DuePassed(DueOf(tasks, last'.id), now))
               THEN last'.outcome = "rejected" /\ NothingSent
               ELSE /\ last'.outcome = "accepted"
                    /\ sent' = sent + 1
                    /\ \E r \in inflight' :
                        /\ inflight' = inflight \cup {r}
                        /\ r \notin inflight
                        /\ r.id = last'.id
                        /\ r.body = [status |-> last'.target]]_vars

(***************************************************************************)
(* frontend/src/components/CreateTaskForm.tsx on the Tasks page, in edit   *)
(* mode                                                                    *)
(***************************************************************************)
\* What the datetime-local control of the due date field can hold.
FormDueInputs == {InputString(t + MelbourneOffset) : t \in Instants}

\* TasksTable's Edit button: handleEditTask hands the row's task to the form,
\* whose effect fills the fields from it.
EditTask(k) ==
    /\ ~loading
    /\ ~error
    /\ k \in 1..Len(tasks)
    /\ editingTask' = tasks[k]
    /\ formData' = [title |-> tasks[k].title,
                    status |-> tasks[k].status,
                    taskcode |-> tasks[k].taskcode,
                    due_date |-> toMelbourneDateTimeLocal(tasks[k].due_date)]
    /\ last' = [op |-> "edit"]
    /\ UNCHANGED << table, pass, handlers, nextId, now, browserOffset, store, tasks, loading, error, inflight,
                    sent, ptask, markResult, resetResult, planned >>

\* The user picks an option of the status select.
ChangeStatus(status) ==
    /\ editingTask.id # 0
    /\ formData.status # status
    /\ formData' = [formData EXCEPT !.status = status]
    /\ last' = [op |-> "field"]
    /\ UNCHANGED << table, pass, handlers, nextId, now, browserOffset, store, tasks, loading, error, inflight,
                    sent, ptask, markResult, resetResult, planned, editingTask >>

\* The user sets the due date control.
ChangeDueDate(input) ==
    /\ editingTask.id # 0
    /\ formData.due_date # input
    /\ formData' = [formData EXCEPT !.due_date = input]
    /\ last' = [op |-> "field"]
    /\ UNCHANGED << table, pass, handlers, nextId, now, browserOffset, store, tasks, loading, error, inflight,
                    sent, ptask, markResult, resetResult, planned, editingTask >>

\* onSubmit's test before the update: the status is Overdue and the due date
\* of the form is missing, unparseable, the epoch, or later than Date.now().
NotOverdueYet(data, t) ==
    LET attemptingOverdue == data.status = "Overdue"
        dueDateIso == fromMelbourneLocalInputToIso(data.due_date)
        dueDateMs == NewDate(dueDateIso)
    IN  attemptingOverdue
            /\ (\/ dueDateIso.kind = "absent"
                \/ dueDateMs.nan
                \/ dueDateMs.ms = 0
                \/ dueDateMs.ms > t)

SubmitRecord(outcome, shown) ==
    [op |-> "submit", outcome |-> outcome, id |-> editingTask.id,
     from |-> editingTask.status, target |-> formData.status,
     due_date |-> formData.due_date, toast |-> shown]

\* handleSubmit(onSubmit) with a task being edited.  The required rule of
\* the due date field keeps an empty date from reaching onSubmit.  The
\* request is answered before the next step of the page: ok tells whether
\* it succeeded.
SubmitEdit ==
    /\ editingTask.id # 0
    /\ formData.due_date.kind # "absent"
    /\ IF NotOverdueYet(formData, now)
       THEN /\ last' = SubmitRecord("rejected",
                            [level |-> "error", text |-> "not overdue yet"])
            /\ UNCHANGED << store, sent, editingTask, formData, loading >>
       ELSE /\ sent < MaxSent
            /\ sent' = sent + 1
            /\ \E ok \in BOOLEAN :
                IF ok
                THEN /\ store' = updateTask(store, editingTask.id,
                                    [title |-> formData.title,
                                     status |-> formData.status,
                                     taskcode |-> formData.taskcode,
                                     due_date |-> fromMelbourneLocalInputToIso(
                                                      formData.due_date)])
                     /\ last' = SubmitRecord("sent",
                                    [level |-> "success", text |-> "updated"])
                     /\ editingTask' = NoTask
                     /\ formData' = NoForm
                     /\ loading' = TRUE
                ELSE /\ last' = SubmitRecord("sent",
                                    [level |-> "error", text |-> "update failed"])
                     /\ UNCHANGED << store, editingTask, formData, loading >>
    /\ UNCHANGED << table, pass, handlers, nextId, now, browserOffset, tasks, error, inflight, ptask,
                    markResult, resetResult, planned >>

\* The Cancel button: handleCancelEdit.
CancelEdit ==
    /\ editingTask.id # 0
    /\ editingTask' = NoTask
    /\ formData' = NoForm
    /\ last' = [op |-> "cancel"]
    /\ UNCHANGED << table, pass, handlers, nextId, now, browserOffset, store, tasks, loading, error, inflight,
                    sent, ptask, markResult, resetResult, planned >>

(***************************************************************************)
(* Specification SpecForm: the Tasks page - the table and the edit form.   *)
(***************************************************************************)
FormInit == BoardInit

FormNext ==
    \/ FetchTasks
    \/ FetchFailed
    \/ Retry
    \/ Tick
    \/ \E k \in 1..NumTasks : EditTask(k)
    \/ \E status \in Statuses : ChangeStatus(status)
    \/ \E input \in FormDueInputs : ChangeDueDate(input)
    \/ SubmitEdit
    \/ CancelEdit

SpecForm == FormInit /\ [][FormNext]_vars

SubmitStep == last'.op = "submit"

\* C10: an edit submission whose (status of the task being edited, status
\* chosen in the form, due date passed) the decision table rejects issues no
\* update request.
C10_FormAppliesGuard ==
    [][(SubmitStep /\ last'.target # last'.from
            /\ TableRejects(last'.from, last'.target,
                            DuePassed(last'.due_date, now)))
            => sent' = sent]_vars

\* The one rejection the form makes: status Overdue with a due date that is
\* missing, unparseable, the epoch or later than now.
FormRejectsOnlyNotOverdueYet ==
    [][SubmitStep =>
        IF last'.target = "Overdue"
              /\ (InstantOf(last'.due_date) > now \/ InstantOf(last'.due_date) = 0)
        THEN last'.outcome = "rejected" /\ sent' = sent
        ELSE last'.outcome = "sent" /\ sent' = sent + 1]_vars

(***************************************************************************)
(* frontend/src/services/taskService.ts: getAllTasks, one await at a time. *)
(* pass.phase is idle (never called), waiting (at await Promise.all) or    *)
(* done; input is the list GET /tasks answered with, t the pass's now,     *)
(* updates the requests it issued and outcome what became of each.         *)
(* pass.wasEdited is history: the ids whose due date another client had    *)
(* changed between the start of the pass before and the start of this one. *)
(***************************************************************************)
\* Rows of the table the pass runs over (ids 1..PassTasks).
PassTasks == 2

\* The readings a due_date column can hold while the clock is within bounds.
PassDueDates == {Absent} \cup {LocalString(t + MelbourneOffset) : t \in 1..MaxTime}

Unsettled == [state |-> "pending", task |-> NoTask]

\* The try/catch around api.put (lines 87-92): the response's task, or null.
UpdateOutcomeThrows(ok, row) ==
    IF ok THEN [state |-> "ok", task |-> row]
    ELSE [state |-> "thrown", task |-> NoTask]

UpdateOutcome(ok, row) ==
    IF ok THEN [state |-> "ok", task |-> row]
    ELSE [state |-> "failed", task |-> NoTask]

\* Promise.all resolves once none of its promises is pending.
AnySettled(p) == \E i \in 1..Len(p.outcome) : p.outcome[i].state # "pending"

AllSettled(p) == \A i \in 1..Len(p.outcome) : p.outcome[i].state # "pending"

\* Promise.all rejects when one of its promises has thrown.
Rejected(p) == \E i \in 1..Len(p.outcome) : p.outcome[i].state = "thrown"

\* updatedTaskMap (lines 97-102): the last response that carries the id.
Answered(p, id) ==
    {i \in 1..Len(p.outcome) : p.outcome[i].state = "ok" /\ p.outcome[i].task.id = id}

Latest(S) == CHOOSE i \in S : \A j \in S : j <= i

PassResultNoFallback(p) ==
    [k \in 1..Len(p.input) |->
        LET task == p.input[k]
        IN  IF ~NoId(task) /\ Answered(p, task.id) # {}
            THEN p.outcome[Latest(Answered(p, task.id))].task
            ELSE task]

\* The list normalizeOverdueTasks returns (lines 105-116).
PassResult(p) ==
    [k \in 1..Len(p.input) |->
        LET task == p.input[k]
        IN  IF ~NoId(task) /\ Answered(p, task.id) # {}
            THEN p.outcome[Latest(Answered(p, task.id))].task
            ELSE IF shouldMarkTaskAsOverdue(task, p.t)
                 THEN [task EXCEPT !.status = "Overdue"]
            ELSE IF shouldResetOverdueStatus(task, p.t)
                 THEN [task EXCEPT !.status = "Pending"]
            ELSE task]

\* The ids whose stored due date is not the one pass p fetched.
EditedSince(p, rows) ==
    {id \in DOMAIN rows :
        \E k \in 1..Len(p.input) :
            p.input[k].id = id /\ p.input[k].due_date # rows[id].due_date}

\* A view calls getAllTasks: GET /tasks answers with the rows, and
\* normalizeOverdueTasks runs up to its early return (lines 77-79) or to
\* await Promise.all with every request issued (lines 82-94).
PassStart ==
    /\ pass.phase # "waiting"
    /\ LET list == RowsFrom(store, PassTasks)
           updates == PlannedUpdates(list, now)
       IN  /\ pass' = [phase |-> IF Len(updates) = 0 THEN "done" ELSE "waiting",
                       input |-> list, t |-> now, updates |-> updates,
                       outcome |-> [i \in 1..Len(updates) |-> Unsettled],
                       wasEdited |-> EditedSince(pass, store)]
           /\ IF Len(updates) = 0
              THEN tasks' = list /\ loading' = FALSE
              ELSE tasks' = tasks /\ loading' = TRUE
           /\ last' = [op |-> "pass", issued |-> Len(updates),
                        repeat |-> pass.phase = "done" /\ pass.t = now
                                        /\ EditedSince(pass, store) = {},
                        before |-> Len(pass.outcome),
                        beforeOk |-> \A i \in 1..Len(pass.outcome) :
                                        pass.outcome[i].state = "ok"]
    /\ error' = FALSE
    /\ UNCHANGED << table, now, browserOffset, store, inflight, sent, ptask, markResult,
                    resetResult, planned, editingTask, formData, handlers, nextId >>

\* One of the pass's requests is answered: PUT /tasks/:id wrote the row and
\* returned it (ok), or it failed.
PassUpdateSettles(i, ok) ==
    /\ pass.phase = "waiting"
    /\ i \in 1..Len(pass.updates)
    /\ pass.outcome[i].state = "pending"
    /\ LET u == pass.updates[i]
           rows == IF ok THEN updateTask(store, u.id, u.body) ELSE store
       IN  /\ store' = rows
           /\ pass' = [pass EXCEPT !.outcome[i] = UpdateOutcome(ok, rows[u.id])]
           /\ last' = [op |-> "answer", i |-> i, id |-> u.id, ok |-> ok]
    /\ UNCHANGED << table, now, browserOffset, tasks, loading, error, inflight, sent,
                    ptask, markResult, resetResult, planned, editingTask,
                    formData, handlers, nextId >>

\* Promise.all is through: normalizeOverdueTasks returns its list and the
\* view takes it (setTasks, setLoading(false)); a rejection reaches the
\* view's catch instead.
PassFinish ==
    /\ pass.phase = "waiting"
    /\ AllSettled(pass)
    /\ pass' = [pass EXCEPT !.phase = "done"]
    /\ IF Rejected(pass)
       THEN tasks' = tasks /\ error' = TRUE
       ELSE tasks' = PassResult(pass) /\ error' = error
    /\ loading' = FALSE
    /\ last' = [op |-> "list"]
    /\ UNCHANGED << table, now, browserOffset, store, inflight, sent, ptask, markResult,
                    resetResult, planned, editingTask, formData, handlers, nextId >>

\* Another client's PUT /tasks/:id { due_date }.
PutDueDate(id, d) ==
    /\ id \in DOMAIN store
    /\ store[id].due_date # DatetimeColumn(d)
    /\ store' = updateTask(store, id, [due_date |-> d])
    /\ last' = [op |-> "put due_date", id |-> id]
    /\ UNCHANGED << table, pass, now, browserOffset, tasks, loading, error, inflight, sent,
                    ptask, markResult, resetResult, planned, editingTask,
                    formData, handlers, nextId >>

(***************************************************************************)
(* Specification SpecPass: the Reconciliation Pass over PassTasks rows.    *)
(***************************************************************************)
PassInit ==
    /\ now = 1
    /\ browserOffset \in BrowserOffsets
    /\ \E f \in [1..PassTasks -> Statuses \X PassDueDates] :
            store = [i \in 1..PassTasks |-> Task(i, f[i][1], f[i][2])]
    /\ tasks = << >>
    /\ loading = FALSE
    /\ error = FALSE
    /\ inflight = {}
    /\ sent = 0
    /\ last = Idle
    /\ ptask = NoTask
    /\ markResult = FALSE
    /\ resetResult = FALSE
    /\ planned = << >>
    /\ editingTask = NoTask
    /\ formData = NoForm
    /\ pass = NoPass
    /\ table = NoTable
    /\ handlers = {}
    /\ nextId = PassTasks + 1

PassNext ==
    \/ PassStart
    \/ \E i \in 1..PassTasks, ok \in BOOLEAN : PassUpdateSettles(i, ok)
    \/ PassFinish
    \/ Tick
    \/ \E id \in 1..PassTasks, t \in 1..MaxTime :
            PutDueDate(id, ZonedString(t + MelbourneOffset, MelbourneOffset))

SpecPass == PassInit /\ [][PassNext]_vars

(***************************************************************************)
(* The Status Policy as the specification words it.                        *)
(***************************************************************************)
MustMark(task, t) ==
    task.status \in {"Pending", "In Progress"} /\ DuePassed(task.due_date, t)

MustReset(task, t) ==
    /\ task.status = "Overdue"
    /\ ParsesToInstant(task.due_date)
    /\ InstantOf(task.due_date) >= t

TargetOf(task, t) == IF MustMark(task, t) THEN "Overdue" ELSE "Pending"

StartStep == last'.op = "pass"
AnswerStep == last'.op = "answer"
ListStep == last'.op = "list"

C12_NothingToDo ==
    [][(StartStep
            /\ \A id \in DOMAIN store :
                    ~MustMark(store[id], now) /\ ~MustReset(store[id], now))
            => /\ last'.issued = 0
               /\ pass'.updates = << >>
               /\ pass'.phase = "done"
               /\ store' = store
               /\ tasks' = RowsFrom(store, PassTasks)]_vars

C12_Witness ==
    /\ last.op = "pass"
    /\ last.issued = 0
    /\ pass.phase = "done"
    /\ Len(tasks) = PassTasks
    /\ tasks = pass.input
    /\ \E k \in 1..Len(tasks) : tasks[k].status = "Overdue"
    /\ \E k \in 1..Len(tasks) : tasks[k].status = "Pending" /\ tasks[k].due_date # Absent

\* C13: the pass issues one request for every task to be marked or reset; a
\* request that succeeds is applied whatever became of the others; and the
\* pass hands over a list, never an error, whichever requests failed.
C13_IndependentUpdates ==
    [][/\ StartStep =>
            /\ \A id \in DOMAIN store :
                  (MustMark(store[id], now) \/ MustReset(store[id], now)) =>
                      \E i \in 1..Len(pass'.updates) :
                          /\ pass'.updates[i] =
                                [id |-> id,
                                 body |-> [status |-> TargetOf(store[id], now)]]
                          /\ pass'.outcome[i].state = "pending"
            /\ last'.issued = Cardinality({id \in DOMAIN store :
                    MustMark(store[id], now) \/ MustReset(store[id], now)})
       /\ (AnswerStep /\ last'.ok) =>
            store'[last'.id].status = pass.updates[last'.i].body.status
       /\ ListStep =>
            /\ ~error'
            /\ Len(tasks') = Len(pass.input)]_vars

C13_Witness ==
    /\ last.op = "list"
    /\ ~error
    /\ \E i, j \in 1..Len(pass.outcome) :
            /\ pass.outcome[i].state = "failed"
            /\ pass.outcome[j].state = "ok"
            /\ i < j
            /\ store[pass.updates[j].id].status = pass.updates[j].body.status
    /\ Len(tasks) = PassTasks

\* C14: position by position the list the pass hands over holds the task the
\* server returned where the update succeeded, the fetched task with the
\* policy's target status where the update failed, and the fetched task
\* itself where there was no update.
C14_ResultList ==
    [][ListStep =>
        /\ Len(tasks') = Len(pass.input)
        /\ \A k \in 1..Len(pass.input) :
            LET task == pass.input[k]
                mine == {i \in 1..Len(pass.updates) : pass.updates[i].id = task.id}
            IN  IF \E i \in mine : pass.outcome[i].state = "ok"
                THEN \E i \in mine : pass.outcome[i].state = "ok"
                                        /\ tasks'[k] = pass.outcome[i].task
                ELSE IF mine # {} /\ (MustMark(task, pass.t) \/ MustReset(task, pass.t))
                THEN tasks'[k] = [task EXCEPT !.status = TargetOf(task, pass.t)]
                ELSE tasks'[k] = task]_vars

C14_Witness ==
    /\ last.op = "list"
    /\ \E k \in 1..Len(tasks) :
            /\ tasks[k] # pass.input[k]
            /\ \E i \in 1..Len(pass.updates) :
                    pass.updates[i].id = tasks[k].id /\ pass.outcome[i].state = "failed"
    /\ \E k \in 1..Len(tasks) :
            \E i \in 1..Len(pass.updates) :
                    pass.updates[i].id = tasks[k].id /\ pass.outcome[i].state = "ok"

\* C15: the view receives the pass's list (and stops loading) only in a step
\* after which none of the pass's requests is pending; while a request is
\* pending the view's list does not change.
C15_ListAfterAllSettled ==
    [][/\ (tasks' # tasks \/ (loading /\ ~loading')) =>
            \A i \in 1..Len(pass'.outcome) : pass'.outcome[i].state # "pending"
       /\ (\E i \in 1..Len(pass.outcome) : pass.outcome[i].state = "pending"
            /\ pass'.phase = "waiting") =>
            tasks' = tasks /\ loading']_vars

C15_Witness ==
    /\ last.op = "list"
    /\ Len(pass.outcome) = PassTasks
    /\ ~loading
    /\ tasks # << >>
    /\ pass.outcome[1].state = "failed"
    /\ pass.outcome[2].state = "ok"

\* C16: a pass that starts when a stored Overdue task has had its due date
\* written to an instant after now issues status = Pending for it, and when
\* that request succeeds the stored task is Pending.
C16_ResetAfterDueDateEdit ==
    [][/\ StartStep =>
            \A id \in EditedSince(pass, store) :
                (store[id].status = "Overdue" /\ ParsesToInstant(store[id].due_date)
                    /\ InstantOf(store[id].due_date) > now) =>
                    \E i \in 1..Len(pass'.updates) :
                        pass'.updates[i] = [id |-> id, body |-> [status |-> "Pending"]]
       /\ (AnswerStep /\ last'.ok /\ last'.id \in pass.wasEdited
                /\ pass.updates[last'.i].body.status = "Pending") =>
            store'[last'.id].status = "Pending"]_vars

C16_Witness ==
    /\ last.op = "answer"
    /\ last.ok
    /\ last.id \in pass.wasEdited
    /\ pass.updates[last.i].body.status = "Pending"
    /\ store[last.id].status = "Pending"
    /\ InstantOf(store[last.id].due_date) > pass.t

(***************************************************************************)
(* backend/src/controllers/todo.controller.ts over the tasks table.  A     *)
(* handler runs from one await to the next in one step; handlers maps each *)
(* request to its kind, task id, body, position (check: at await           *)
(* getTaskByCode, write: at await taskService.createTask / updateTask,     *)
(* done) and response.                                                     *)
(***************************************************************************)
\* Requests the backend receives in one run.
MaxRequests == 2

\* taskcode values of a request body: three well-formed codes (two of them
\* in the table at the start), five characters with a hyphen, four
\* characters, and '' (also standing for a missing key).
Taskcodes == {"AB123", "A0002", "A0003", "AB-12", "AB12", ""}
Titles == {"Task", ""}

CreateBodies == [title : Titles, taskcode : Taskcodes]
UpdateBodies ==
    [taskcode : Taskcodes] \cup [title : {"Renamed"}]
        \cup [taskcode : Taskcodes, title : {"Renamed"}] \cup {<< >>}

NoResponse == [status |-> 0, error |-> "none"]
Response(code, text) == [status |-> code, error |-> text]

\* undefined (a key the JSON body lacks) and null (SQL NULL), next to the
\* strings a body carries.
Undefined == "undefined"
Null == "null"
Field(body, f) == IF f \in DOMAIN body THEN body[f] ELSE Undefined

\* The :id segment of a path: text that is a decimal numeral ('1'), a
\* numeral followed by other characters ('1abc'), or text that starts with
\* no digit ('abc').
Numeral(n) == [digits |-> TRUE, n |-> n, rest |-> FALSE]
NumeralThenText(n) == [digits |-> TRUE, n |-> n, rest |-> TRUE]
Letters == [digits |-> FALSE, n |-> 0, rest |-> TRUE]
NoParam == [digits |-> FALSE, n |-> 0, rest |-> FALSE]

\* parseInt(id, 10) reads the leading digits and ignores what follows them;
\* without leading digits the result is NaN.
NaN == [nan |-> TRUE, n |-> 0]
parseInt(text) == IF text.digits THEN [nan |-> FALSE, n |-> text.n] ELSE NaN

\* A row of the tasks table (schema lines 7-20).
Row(i, s, d, t) ==
    [id |-> i, title |-> TitleOf(i), description |-> Null, status |-> s,
     taskcode |-> CodeOf(i), due_date |-> d, created_at |-> t,
     updated_at |-> t]

\* title VARCHAR(100), status ENUM(...): under the server's default (strict)
\* sql_mode a statement carrying a value the column cannot hold fails.
TitleMax == 100
\* A title of 102 characters.
LongTitle ==
    "Lorem ipsum dolor sit amet, consectetur adipiscing elit, sed do eiusmod tempor incididunt ut labore et"
EnumAcceptsAnything(status) == FALSE
EnumRefuses(status) == status \notin Statuses
VarcharRefuses(title) == Len(title) > TitleMax

\* taskService.getTaskByCode: the ids of the rows SELECT ... WHERE taskcode = ?
\* finds.
getTaskByCode(rows, taskcode) == {i \in DOMAIN rows : rows[i].taskcode = taskcode}

\* taskcode VARCHAR(5) UNIQUE: writing taskcode into row id (a new row when
\* id is not in the table) fails when another row holds it.
NoUniqueIndex(rows, id, taskcode) == FALSE

UniqueViolation(rows, id, taskcode) ==
    \E i \in DOMAIN rows : i # id /\ rows[i].taskcode = taskcode

\* existingTask && existingTask.id !== taskId
CodeTaken(existingTask, taskId) == \E i \in existingTask : i # taskId

\* The row INSERT adds (taskService.createTask): status || 'Pending',
\* due_date || null.
Truthy(text) == text \notin {"", Undefined, Null}

\* What the controller hands to taskService.createTask (lines 59-65).
CreateArguments(body) ==
    [title |-> body.title,
     description |-> Field(body, "description"),
     status |-> IF Truthy(Field(body, "status")) THEN body.status ELSE "Pending",
     taskcode |-> body.taskcode,
     due_date |-> IF "due_date" \in DOMAIN body THEN body.due_date ELSE Absent]

\* The row INSERT adds (taskService.createTask): description || null,
\* due_date || null, both timestamps CURRENT_TIMESTAMP.
NewRow(id, task, t) ==
    [id |-> id, title |-> task.title,
     description |-> IF Truthy(task.description) THEN task.description ELSE Null,
     status |-> task.status, taskcode |-> task.taskcode,
     due_date |-> DatetimeColumn(task.due_date),
     created_at |-> t, updated_at |-> t]

\* fields.push('updated_at = NOW()'): reached only when the body carries
\* one of the five fields.
KeepUpdatedAt(rows, id, body, t) == rows
StampUpdatedAt(rows, id, body, t) ==
    IF id \in DOMAIN rows
         /\ DOMAIN body \cap {"title", "description", "status", "taskcode", "due_date"} # {}
    THEN [rows EXCEPT ![id].updated_at = t]
    ELSE rows

\* taskService.getTaskById: the row, or null.  The timestamps pass through
\* normalizeTaskTimestamps, which leaves a Melbourne reading as it is.
NoRow == Row(0, "Pending", Absent, 0)
getTaskById(rows, id) == IF id \in DOMAIN rows THEN rows[id] ELSE NoRow

Receive(kind, param, body, pc, res) ==
    /\ Cardinality(DOMAIN handlers) < MaxRequests
    /\ LET rid == Cardinality(DOMAIN handlers) + 1
       IN  /\ handlers' = [r \in DOMAIN handlers \cup {rid} |->
                            IF r = rid
                            THEN [kind |-> kind, param |-> param,
                                  id |-> parseInt(param).n, body |-> body,
                                  pc |-> pc, res |-> res]
                            ELSE handlers[r]]
           /\ last' = [op |-> "api", rid |-> rid, step |-> "received"]

Respond(rid, res) ==
    /\ handlers' = [handlers EXCEPT ![rid].pc = "done", ![rid].res = res]

\* POST /tasks up to await getTaskByCode (lines 44-54).
CreateTaskReceived(body) ==
    /\ IF ~Truthy(body.title) \/ ~Truthy(body.taskcode)
       THEN Receive("create", NoParam, body, "done",
                    Response(400, "Title and taskcode are required"))
       ELSE IF Len(body.taskcode) # 5
       THEN Receive("create", NoParam, body, "done",
                    Response(400, "Taskcode must be exactly 5 characters"))
       ELSE Receive("create", NoParam, body, "check", NoResponse)
    /\ UNCHANGED << table, now, browserOffset, store, tasks, loading, error, inflight,
                    sent, ptask, markResult, resetResult, planned, editingTask,
                    formData, pass, nextId >>

\* getTaskByCode has answered (lines 54-59).
CreateTaskChecked(rid) ==
    /\ rid \in DOMAIN handlers
    /\ handlers[rid].kind = "create"
    /\ handlers[rid].pc = "check"
    /\ IF getTaskByCode(store, handlers[rid].body.taskcode) # {}
       THEN Respond(rid, Response(400, "Taskcode already exists"))
       ELSE handlers' = [handlers EXCEPT ![rid].pc = "write"]
    /\ last' = [op |-> "api", rid |-> rid, step |-> "checked"]
    /\ UNCHANGED << table, now, browserOffset, store, tasks, loading, error, inflight,
                    sent, ptask, markResult, resetResult, planned, editingTask,
                    formData, pass, nextId >>

\* taskService.createTask has answered (lines 59-70): the INSERT added the
\* row, or the unique index or a column refused it and the catch answers
\* 500.
CreateTaskInserted(rid) ==
    /\ rid \in DOMAIN handlers
    /\ handlers[rid].kind = "create"
    /\ handlers[rid].pc = "write"
    /\ IF \/ UniqueViolation(store, nextId, handlers[rid].body.taskcode)
          \/ VarcharRefuses(handlers[rid].body.title)
          \/ EnumRefuses(CreateArguments(handlers[rid].body).status)
       THEN /\ Respond(rid, Response(500, "Sorry, something went wrong on our end."))
            /\ UNCHANGED << store, nextId >>
       ELSE /\ store' = [i \in DOMAIN store \cup {nextId} |->
                            IF i = nextId
                            THEN NewRow(nextId, CreateArguments(handlers[rid].body), now)
                            ELSE store[i]]
            /\ nextId' = nextId + 1
            /\ handlers' = [handlers EXCEPT ![rid].pc = "done",
                                            ![rid].id = nextId,
                                            ![rid].res = Response(201, "none")]
    /\ last' = [op |-> "api", rid |-> rid, step |-> "written"]
    /\ UNCHANGED << table, now, browserOffset, tasks, loading, error, inflight, sent,
                    ptask, markResult, resetResult, planned, editingTask,
                    formData, pass >>

\* PUT /tasks/:id up to its first await (lines 75-94).
UpdateTaskReceived(param, body) ==
    /\ LET carried == "taskcode" \in DOMAIN body /\ Truthy(body.taskcode)
       IN  IF parseInt(param).nan
           THEN Receive("update", param, body, "done",
                        Response(400, "Invalid task ID"))
           ELSE IF carried /\ Len(body.taskcode) # 5
           THEN Receive("update", param, body, "done",
                        Response(400, "Taskcode must be exactly 5 characters"))
           ELSE IF carried
           THEN Receive("update", param, body, "check", NoResponse)
           ELSE Receive("update", param, body, "write", NoResponse)
    /\ UNCHANGED << table, now, browserOffset, store, tasks, loading, error, inflight,
                    sent, ptask, markResult, resetResult, planned, editingTask,
                    formData, pass, nextId >>

\* getTaskByCode has answered (lines 88-94).
UpdateTaskChecked(rid) ==
    /\ rid \in DOMAIN handlers
    /\ handlers[rid].kind = "update"
    /\ handlers[rid].pc = "check"
    /\ IF CodeTaken(getTaskByCode(store, handlers[rid].body.taskcode),
                    handlers[rid].id)
       THEN Respond(rid, Response(400, "Taskcode already exists"))
       ELSE handlers' = [handlers EXCEPT ![rid].pc = "write"]
    /\ last' = [op |-> "api", rid |-> rid, step |-> "checked"]
    /\ UNCHANGED << table, now, browserOffset, store, tasks, loading, error, inflight,
                    sent, ptask, markResult, resetResult, planned, editingTask,
                    formData, pass, nextId >>

\* taskService.updateTask has answered (lines 94-101): no row with the id
\* gives 404, a refusal of the unique index or of a column 500, else the
\* row is written.
UpdateTaskWritten(rid) ==
    /\ rid \in DOMAIN handlers
    /\ handlers[rid].kind = "update"
    /\ handlers[rid].pc = "write"
    /\ LET id == handlers[rid].id
           body == handlers[rid].body
       IN  IF id \notin DOMAIN store
           THEN Respond(rid, Response(404, "Task not found")) /\ store' = store
           ELSE IF \/ ("taskcode" \in DOMAIN body
                        /\ UniqueViolation(store, id, body.taskcode))
                    \/ ("title" \in DOMAIN body /\ VarcharRefuses(body.title))
                    \/ ("status" \in DOMAIN body /\ EnumRefuses(body.status))
           THEN /\ Respond(rid, Response(500, "Sorry, something went wrong on our end."))
                /\ store' = store
           ELSE /\ store' = StampUpdatedAt(updateTask(store, id, body), id, body, now)
                /\ Respond(rid, Response(200, "none"))
    /\ last' = [op |-> "api", rid |-> rid, step |-> "written"]
    /\ UNCHANGED << table, now, browserOffset, tasks, loading, error, inflight, sent,
                    ptask, markResult, resetResult, planned, editingTask,
                    formData, pass, nextId >>

\* DELETE /tasks/:id (lines 104-121).
DeleteTaskHandled(param) ==
    /\ LET id == parseInt(param).n
       IN  IF parseInt(param).nan
           THEN /\ Receive("delete", param, << >>, "done",
                           Response(400, "Invalid task ID"))
                /\ store' = store
           ELSE IF id \in DOMAIN store
           THEN /\ Receive("delete", param, << >>, "done", Response(200, "none"))
                /\ store' = [i \in DOMAIN store \ {id} |-> store[i]]
           ELSE /\ Receive("delete", param, << >>, "done",
                           Response(404, "Task not found"))
                /\ store' = store
    /\ UNCHANGED << table, now, browserOffset, tasks, loading, error, inflight, sent,
                    ptask, markResult, resetResult, planned, editingTask,
                    formData, pass, nextId >>

\* GET /tasks/:id (lines 23-40): the response carries the row.
GetTaskByIdHandled(param) ==
    /\ LET id == parseInt(param).n
       IN  IF parseInt(param).nan
           THEN Receive("get", param, << >>, "done", Response(400, "Invalid task ID"))
           ELSE IF getTaskById(store, id) = NoRow
           THEN Receive("get", param, << >>, "done", Response(404, "Task not found"))
           ELSE Receive("get", param, << >>, "done",
                        [status |-> 200, error |-> "none",
                         task |-> getTaskById(store, id)])
    /\ UNCHANGED << table, now, browserOffset, store, tasks, loading, error, inflight,
                    sent, ptask, markResult, resetResult, planned, editingTask,
                    formData, pass, nextId >>

(***************************************************************************)
(* Specification SpecApi: the controllers over a table of two rows.        *)
(***************************************************************************)
ApiInit ==
    /\ now = 1
    /\ browserOffset = MelbourneOffset
    /\ store = [i \in 1..2 |-> Row(i, "Pending", Absent, 0)]
    /\ nextId = 3
    /\ handlers = << >>
    /\ tasks = << >>
    /\ loading = FALSE
    /\ error = FALSE
    /\ inflight = {}
    /\ sent = 0
    /\ last = Idle
    /\ ptask = NoTask
    /\ markResult = FALSE
    /\ resetResult = FALSE
    /\ planned = << >>
    /\ editingTask = NoTask
    /\ formData = NoForm
    /\ pass = NoPass
    /\ table = NoTable

ApiNext ==
    \/ \E body \in CreateBodies : CreateTaskReceived(body)
    \/ \E rid \in 1..MaxRequests : CreateTaskChecked(rid)
    \/ \E rid \in 1..MaxRequests : CreateTaskInserted(rid)
    \/ \E id \in 1..3, body \in UpdateBodies : UpdateTaskReceived(Numeral(id), body)
    \/ \E rid \in 1..MaxRequests : UpdateTaskChecked(rid)
    \/ \E rid \in 1..MaxRequests : UpdateTaskWritten(rid)
    \/ \E id \in 1..3 : DeleteTaskHandled(Numeral(id))

SpecApi == ApiInit /\ [][ApiNext]_vars

(***************************************************************************)
(* Properties of the API surface.                                          *)
(***************************************************************************)
\* Handler rid gets its response in this step.
Answers(rid) ==
    /\ rid \in DOMAIN handlers'
    /\ handlers'[rid].pc = "done"
    /\ rid \in DOMAIN handlers => handlers[rid].pc # "done"

\* Where handler rid stood before this step.
Position(rid) == IF rid \in DOMAIN handlers THEN handlers[rid].pc ELSE "new"

\* Exactly five letters or digits.
Alphanumeric == {"AB123", "A0002", "A0003", "AB12", ""}
WellFormedCode(taskcode) == Len(taskcode) = 5 /\ taskcode \in Alphanumeric

HeldByOther(rows, id, taskcode) ==
    \E i \in DOMAIN rows : i # id /\ rows[i].taskcode = taskcode

\* C17: no two rows of the tasks table hold the same taskcode.
C17_UniqueTaskcodes ==
    \A i, j \in DOMAIN store : i # j => store[i].taskcode # store[j].taskcode

C17_Witness ==
    /\ Cardinality(DOMAIN store) = 3
    /\ \E rid \in DOMAIN handlers :
            /\ handlers[rid].kind = "create"
            /\ handlers[rid].res.status = 500
    /\ \E rid \in DOMAIN handlers :
            /\ handlers[rid].kind = "create"
            /\ handlers[rid].res.status = 201

\* C18: a create request (title given, taskcode of five characters) that
\* is answered while a row holds its taskcode gets 400 'Taskcode already
\* exists', and no INSERT was attempted for it.
C18_DuplicateCreateRejected ==
    [][\A rid \in 1..MaxRequests :
        (/\ Answers(rid)
         /\ handlers'[rid].kind = "create"
         /\ Truthy(handlers'[rid].body.title)
         /\ Len(handlers'[rid].body.taskcode) = 5
         /\ getTaskByCode(store, handlers'[rid].body.taskcode) # {})
        => /\ handlers'[rid].res = Response(400, "Taskcode already exists")
           /\ Position(rid) # "write"
           /\ store' = store]_vars

\* C19: an update whose taskcode another row holds when the handler decides
\* to go on is answered 400 and writes nothing; an update whose taskcode is
\* the one its own row holds is answered 200 and the fields it carries are
\* written.
C19_UpdateTaskcodeCheck ==
    [][\A rid \in 1..MaxRequests :
        /\ (/\ rid \in DOMAIN handlers'
            /\ handlers'[rid].kind = "update"
            /\ Position(rid) \in {"new", "check"}
            /\ handlers'[rid].pc \in {"write", "done"}
            /\ "taskcode" \in DOMAIN handlers'[rid].body
            /\ HeldByOther(store, handlers'[rid].id, handlers'[rid].body.taskcode))
           => /\ handlers'[rid].pc = "done"
              /\ handlers'[rid].res.status = 400
              /\ store' = store
        /\ (/\ Answers(rid)
            /\ handlers'[rid].kind = "update"
            /\ Position(rid) = "write"
            /\ handlers'[rid].id \in DOMAIN store
            /\ "taskcode" \in DOMAIN handlers'[rid].body
            /\ store[handlers'[rid].id].taskcode = handlers'[rid].body.taskcode)
           => /\ handlers'[rid].res.status = 200
              /\ \A f \in DOMAIN handlers'[rid].body :
                    store'[handlers'[rid].id][f] = handlers'[rid].body[f]]_vars

\* The same for a taskcode that is not '': the check of lines 87-92 runs.
UpdateTaskcodeCheckWhenTruthy ==
    [][\A rid \in 1..MaxRequests :
        (/\ rid \in DOMAIN handlers'
         /\ handlers'[rid].kind = "update"
         /\ Position(rid) \in {"new", "check"}
         /\ handlers'[rid].pc \in {"write", "done"}
         /\ "taskcode" \in DOMAIN handlers'[rid].body
         /\ Truthy(handlers'[rid].body.taskcode)
         /\ HeldByOther(store, handlers'[rid].id, handlers'[rid].body.taskcode))
        => /\ handlers'[rid].pc = "done"
           /\ handlers'[rid].res.status = 400
           /\ store' = store]_vars

\* C20: a create request, or an update request carrying a taskcode, whose
\* taskcode is not exactly five letters or digits is answered 400 and
\* writes nothing.
C20_MalformedTaskcodeRejected ==
    [][\A rid \in 1..MaxRequests :
        (/\ Answers(rid)
         /\ handlers'[rid].kind \in {"create", "update"}
         /\ "taskcode" \in DOMAIN handlers'[rid].body
         /\ ~WellFormedCode(handlers'[rid].body.taskcode))
        => /\ handlers'[rid].res.status = 400
           /\ store' = store]_vars

\* What the controllers do test: a taskcode that is given and not of five
\* characters is answered 400 on receipt.
WrongLengthRejected ==
    [][\A rid \in 1..MaxRequests :
        (/\ Answers(rid)
         /\ handlers'[rid].kind \in {"create", "update"}
         /\ "taskcode" \in DOMAIN handlers'[rid].body
         /\ Truthy(handlers'[rid].body.taskcode)
         /\ Len(handlers'[rid].body.taskcode) # 5)
        => /\ handlers'[rid].res.status = 400
           /\ Position(rid) = "new"
           /\ store' = store]_vars

(***************************************************************************)
(* Specification SpecCrud: the same controllers with bodies that vary in   *)
(* title, description, status and due_date, paths whose :id is any text,   *)
(* and the clock of the database server moving.                            *)
(***************************************************************************)
CrudBase == [title |-> "Task", taskcode |-> "A0003"]
With(body, f, v) == [g \in DOMAIN body \cup {f} |-> IF g = f THEN v ELSE body[g]]

CrudCreateBodies ==
    {CrudBase,
     With(CrudBase, "title", ""),
     With(CrudBase, "title", LongTitle),
     With(CrudBase, "description", ""),
     With(CrudBase, "description", "Notes"),
     With(CrudBase, "status", ""),
     With(CrudBase, "status", "Completed"),
     With(CrudBase, "status", "Done"),
     With(CrudBase, "due_date", LocalString(MelbourneOffset + 1)),
     With(CrudBase, "due_date", ZonedString(1, 0))}

CrudUpdateBodies ==
    {<< >>,
     [status |-> "Completed"],
     [status |-> "Done"],
     [title |-> "Renamed"],
     [title |-> LongTitle],
     [description |-> "Notes"],
     [due_date |-> ZonedString(1, 0)],
     [title |-> "Renamed", status |-> "Overdue"]}

CrudParams == {Numeral(1), Numeral(3), NumeralThenText(1), Letters}

CrudInit ==
    /\ ApiInit
    /\ now = 1

CrudNext ==
    \/ \E body \in CrudCreateBodies : CreateTaskReceived(body)
    \/ \E rid \in 1..MaxRequests : CreateTaskChecked(rid)
    \/ \E rid \in 1..MaxRequests : CreateTaskInserted(rid)
    \/ \E param \in CrudParams, body \in CrudUpdateBodies :
            UpdateTaskReceived(param, body)
    \/ \E rid \in 1..MaxRequests : UpdateTaskWritten(rid)
    \/ \E param \in CrudParams : GetTaskByIdHandled(param)
    \/ \E param \in CrudParams : DeleteTaskHandled(param)
    \/ Tick

SpecCrud == CrudInit /\ [][CrudNext]_vars

(***************************************************************************)
(* Properties of create, read, update and delete.                          *)
(***************************************************************************)
\* The :id text is a decimal numeral and nothing else.
IsNumeric(text) == text.digits /\ ~text.rest

\* Handler rid is answered in this step and is of the given kind.
AnsweredAs(rid, kind) == Answers(rid) /\ handlers'[rid].kind = kind

\* C21: a create request whose title is missing, empty or longer than 100
\* characters is answered 400 on receipt, before any statement is sent to
\* the table, and no row ever holds a title longer than 100 characters.
C21_TitleValidated ==
    /\ [](\A i \in DOMAIN store : Len(store[i].title) <= TitleMax)
    /\ [][\A rid \in 1..MaxRequests :
            (/\ AnsweredAs(rid, "create")
             /\ \/ ~Truthy(handlers'[rid].body.title)
                \/ Len(handlers'[rid].body.title) > TitleMax)
            => /\ handlers'[rid].res.status = 400
               /\ Position(rid) = "new"
               /\ store' = store]_vars

\* What does hold: no row holds a title longer than the column, and a
\* missing or empty title is answered 400 on receipt.
TitleColumnBound ==
    /\ [](\A i \in DOMAIN store : Len(store[i].title) <= TitleMax)
    /\ [][\A rid \in 1..MaxRequests :
            (AnsweredAs(rid, "create") /\ ~Truthy(handlers'[rid].body.title))
            => /\ handlers'[rid].res.status = 400
               /\ Position(rid) = "new"
               /\ store' = store]_vars

\* C22: a get, update or delete whose :id is not numeric is answered 400
\* 'Invalid task ID' and leaves the table alone; one whose :id is a numeral
\* naming no row (the update carrying no taskcode) is answered 404 'Task
\* not found' and leaves the table alone.
C22_InvalidAndUnknownIds ==
    [][\A rid \in 1..MaxRequests :
        (/\ Answers(rid)
         /\ handlers'[rid].kind \in {"get", "update", "delete"})
        => /\ ~IsNumeric(handlers'[rid].param)
                => /\ handlers'[rid].res = Response(400, "Invalid task ID")
                   /\ store' = store
           /\ (/\ IsNumeric(handlers'[rid].param)
               /\ handlers'[rid].param.n \notin DOMAIN store
               /\ "taskcode" \notin DOMAIN handlers'[rid].body)
                => /\ handlers'[rid].res = Response(404, "Task not found")
                   /\ store' = store]_vars

\* What does hold: text without leading digits is answered 400, and an id
\* parseInt yields that names no row is answered 404.
UnparsableAndUnknownIds ==
    [][\A rid \in 1..MaxRequests :
        (/\ Answers(rid)
         /\ handlers'[rid].kind \in {"get", "update", "delete"})
        => /\ ~handlers'[rid].param.digits
                => /\ handlers'[rid].res = Response(400, "Invalid task ID")
                   /\ store' = store
           /\ (/\ handlers'[rid].param.digits
               /\ handlers'[rid].param.n \notin DOMAIN store
               /\ "taskcode" \notin DOMAIN handlers'[rid].body)
                => /\ handlers'[rid].res = Response(404, "Task not found")
                   /\ store' = store]_vars

C24_UpdatedAt ==
    /\ [](\A i \in DOMAIN store : store[i].updated_at >= store[i].created_at)
    /\ [][/\ \A rid \in 1..MaxRequests :
                (/\ AnsweredAs(rid, "update")
                 /\ handlers'[rid].res.status = 200
                 /\ DOMAIN handlers'[rid].body # {})
                => store'[handlers'[rid].id].updated_at = now
           /\ \A i \in DOMAIN store \cap DOMAIN store' :
                store'[i].updated_at >= store[i].updated_at]_vars

C24_Witness ==
    \E rid \in DOMAIN handlers :
        /\ handlers[rid].kind = "update"
        /\ handlers[rid].res.status = 200
        /\ DOMAIN handlers[rid].body # {}
        /\ handlers[rid].id \in DOMAIN store
        /\ store[handlers[rid].id].updated_at = MaxTime
        /\ store[handlers[rid].id].created_at < MaxTime

\* The fields a create request submits, status read as Pending when the
\* body carries none.
Submitted(body) ==
    [f \in (DOMAIN body \cup {"status"}) \cap
            {"title", "description", "status", "taskcode", "due_date"} |->
        IF f = "status" /\ ~Truthy(Field(body, "status")) THEN "Pending"
        ELSE body[f]]

\* Some accepted update of row id has been answered.
UpdatedBefore(id) ==
    \E u \in DOMAIN handlers :
        /\ handlers[u].kind = "update"
        /\ handlers[u].id = id
        /\ handlers[u].res.status = 200

\* C25: a get-by-id that finds the row of an accepted create, no update of
\* that row having been accepted before, returns the submitted title,
\* description, status (Pending when omitted), taskcode and due_date.
C25_CreateThenGet ==
    [][\A g, c \in 1..MaxRequests :
        (/\ AnsweredAs(g, "get")
         /\ handlers'[g].res.status = 200
         /\ c \in DOMAIN handlers
         /\ handlers[c].kind = "create"
         /\ handlers[c].res.status = 201
         /\ handlers[c].id = handlers'[g].id
         /\ ~UpdatedBefore(handlers[c].id))
        => \A f \in DOMAIN Submitted(handlers[c].body) :
                handlers'[g].res.task[f] = Submitted(handlers[c].body)[f]]_vars

\* What does hold: title, status and taskcode come back as submitted, the
\* description too unless it was '', and the due_date as the Melbourne
\* reading of the instant submitted.
CreateThenGetNormalised ==
    [][\A g, c \in 1..MaxRequests :
        (/\ AnsweredAs(g, "get")
         /\ handlers'[g].res.status = 200
         /\ c \in DOMAIN handlers
         /\ handlers[c].kind = "create"
         /\ handlers[c].res.status = 201
         /\ handlers[c].id = handlers'[g].id
         /\ ~UpdatedBefore(handlers[c].id))
        => \A f \in DOMAIN Submitted(handlers[c].body) :
                handlers'[g].res.task[f] =
                    IF f = "due_date" THEN DatetimeColumn(handlers[c].body[f])
                    ELSE IF f = "description" /\ handlers[c].body[f] = "" THEN Null
                    ELSE Submitted(handlers[c].body)[f]]_vars

\* C28: an update changes, in the row it names, only the fields its body
\* carries and updated_at; id, created_at, the fields it omits and every
\* other row stay as they were, so a body carrying only status leaves
\* title, taskcode, description and due_date alone.
C28_UpdateFrame ==
    [][\A rid \in 1..MaxRequests :
        AnsweredAs(rid, "update")
        => /\ DOMAIN store' = DOMAIN store
           /\ \A i \in DOMAIN store :
                /\ i # handlers'[rid].id => store'[i] = store[i]
                /\ \A f \in DOMAIN store[i] \ (DOMAIN handlers'[rid].body \cup {"updated_at"}) :
                        store'[i][f] = store[i][f]]_vars

C28_Witness ==
    \E rid \in DOMAIN handlers :
        /\ handlers[rid].kind = "update"
        /\ DOMAIN handlers[rid].body = {"status"}
        /\ handlers[rid].res.status = 200
        /\ handlers[rid].id \in DOMAIN store
        /\ store[handlers[rid].id].status = "Completed"
        /\ store[handlers[rid].id].title = TitleOf(handlers[rid].id)
        /\ store[handlers[rid].id].taskcode = CodeOf(handlers[rid].id)
        /\ store[handlers[rid].id].updated_at > store[handlers[rid].id].created_at

(***************************************************************************)
(* Properties of the board's feedback, of the guard's clock and of         *)
(* overlapping drags.                                                      *)
(***************************************************************************)
\* C26: a drag the guard rails reject is reported with a toast of another
\* level than the one that reports the failure of an accepted update.
C26_RejectionChannel ==
    [][(DragStep /\ last'.outcome = "rejected")
        => last'.toast.level # FailureToast.level]_vars

\* What does hold: the two rejections that ask for a new due date are
\* reported with toast.warn.
DueDateRejectionsWarn ==
    [][(/\ DragStep
        /\ last'.outcome = "rejected"
        /\ isActiveStatus(last'.target))
        => last'.toast.level = "warn"]_vars

\* C27: for every task a drag is decided for, at that moment, the guard's
\* hasDueDatePassed agrees with the due-date test the pass applies with
\* new Date() (the test of shouldMarkTaskAsOverdue for a task with an id
\* and an active status).
GuardAgreesWithPass(task) ==
    hasDueDatePassed(task)
        = shouldMarkTaskAsOverdue([task EXCEPT !.status = "Pending"], now)

C27_GuardAgreesWithPass ==
    [][(DragStep /\ last'.outcome \in {"rejected", "accepted"})
        => GuardAgreesWithPass(tasks[FindTask(tasks, last'.id)])]_vars

\* What does hold: the two agree in a browser whose zone is Melbourne.
GuardAgreesWithPassInMelbourne ==
    [][(/\ DragStep
        /\ last'.outcome \in {"rejected", "accepted"}
        /\ browserOffset = MelbourneOffset)
        => GuardAgreesWithPass(tasks[FindTask(tasks, last'.id)])]_vars

\* C29: the board's list having been loaded as the table held it, once
\* every update the drags sent has settled the status the list shows for
\* each task is the status its row holds.
C29_SettledListMatchesStore ==
    (/\ inflight = {}
     /\ sent > 0
     /\ planned = << >>
     /\ ~loading /\ ~error)
    => \A k \in 1..Len(tasks) :
            /\ tasks[k].id \in DOMAIN store
            /\ tasks[k].status = store[tasks[k].id].status

\* What does hold: the same when a single drag was accepted.
SingleDragListMatchesStore ==
    (/\ inflight = {}
     /\ sent = 1
     /\ planned = << >>
     /\ ~loading /\ ~error)
    => \A k \in 1..Len(tasks) :
            /\ tasks[k].id \in DOMAIN store
            /\ tasks[k].status = store[tasks[k].id].status

\* A rollback that leaves the list showing a status its row does not hold.
RollbackLeavesStaleList ==
    /\ last.op = "failed"
    /\ inflight = {}
    /\ planned = << >>
    /\ \E k \in 1..Len(tasks) : tasks[k].status # store[tasks[k].id].status

(***************************************************************************)
(* frontend/src/components/TasksTable.tsx: the tasks table.  No row has a  *)
(* due date, so the pass inside getAllTasks issues no update.              *)
(***************************************************************************)
\* Rows in the tasks table when the table mounts.
TableTasks == 6
\* Pages the Next button is followed to.
MaxPage == 3

rowsPerPageOptions == {5, 10, 20, 50, 100}
SortFields == {"id", "title"}

\* aValue.localeCompare(bValue) on the titles of the rows; a - b on ids.
localeCompare(a, b) ==
    IF a = b THEN 0 ELSE IF a = "Task" THEN 0 - 1 ELSE 1

compare(a, b, sortField, sortDirection) ==
    LET comparison == IF sortField = "id" THEN a.id - b.id
                      ELSE localeCompare(a.title, b.title)
    IN  IF sortDirection = "asc" THEN comparison ELSE 0 - comparison

\* [...tasks].sort(...): a stable sort.
RECURSIVE InsertSorted(_, _, _, _)
InsertSorted(x, sorted, sortField, sortDirection) ==
    IF sorted = << >> THEN << x >>
    ELSE IF compare(Head(sorted), x, sortField, sortDirection) <= 0
    THEN << Head(sorted) >> \o InsertSorted(x, Tail(sorted), sortField, sortDirection)
    ELSE << x >> \o sorted

RECURSIVE SortFrom(_, _, _, _)
SortFrom(list, k, sortField, sortDirection) ==
    IF k = 0 THEN << >>
    ELSE InsertSorted(list[k], SortFrom(list, k - 1, sortField, sortDirection),
                      sortField, sortDirection)

sortedTasks ==
    IF table.sortField = "none" THEN tasks
    ELSE SortFrom(tasks, Len(tasks), table.sortField, table.sortDirection)

\* Math.ceil(sortedTasks.length / rowsPerPage)
totalPages == (Len(sortedTasks) + table.rowsPerPage - 1) \div table.rowsPerPage
startIndex == (table.currentPage - 1) * table.rowsPerPage
endIndex == startIndex + table.rowsPerPage

\* sortedTasks.slice(startIndex, endIndex)
currentTasks ==
    IF startIndex >= Len(sortedTasks) THEN << >>
    ELSE SubSeq(sortedTasks, startIndex + 1,
                IF endIndex < Len(sortedTasks) THEN endIndex ELSE Len(sortedTasks))

\* The table is on screen (lines 254-280) and no dialog covers it.
TableShown == ~loading /\ ~error /\ ~table.showDeleteModal

TableFrame ==
    UNCHANGED << now, browserOffset, inflight, sent, ptask, markResult,
                 resetResult, planned, editingTask, formData, pass, handlers,
                 nextId >>

\* fetchTasks after await getAllTasks (lines 69-80).
TableFetched ==
    /\ loading
    /\ tasks' = RowsFrom(store, TableTasks)
    /\ loading' = FALSE
    /\ last' = [op |-> "table fetch"]
    /\ UNCHANGED << store, error, table >>
    /\ TableFrame

TableFetchFailed ==
    /\ loading
    /\ loading' = FALSE
    /\ error' = TRUE
    /\ last' = [op |-> "table fetch failed"]
    /\ UNCHANGED << store, tasks, table >>
    /\ TableFrame

\* The Retry button (line 270), or refreshKey changing (lines 83-85):
\* fetchTasks starts.
TableRefetch ==
    /\ ~loading
    /\ ~table.isDeleting
    /\ loading' = TRUE
    /\ error' = FALSE
    /\ last' = [op |-> "refetch"]
    /\ UNCHANGED << store, tasks, table >>
    /\ TableFrame

\* handleSort (lines 88-98).
handleSort(field) ==
    /\ TableShown
    /\ table' = IF table.sortField = field
                THEN [table EXCEPT
                        !.sortDirection = IF table.sortDirection = "asc"
                                          THEN "desc" ELSE "asc",
                        !.currentPage = 1]
                ELSE [table EXCEPT !.sortField = field, !.sortDirection = "asc",
                                   !.currentPage = 1]
    /\ last' = [op |-> "sort", field |-> field]
    /\ UNCHANGED << store, tasks, loading, error >>
    /\ TableFrame

\* The pagination buttons (lines 522-612), shown when totalPages > 1:
\* First and Previous are disabled on page 1, Next and Last on the last
\* page; a numbered button exists for pages 1..totalPages.
PageButtons ==
    IF totalPages <= 1 THEN {}
    ELSE (1..totalPages)
            \cup (IF table.currentPage = 1 THEN {} ELSE {1, table.currentPage - 1})
            \cup (IF table.currentPage = totalPages THEN {}
                  ELSE {table.currentPage + 1, totalPages})

\* handlePageChange (lines 146-148).
handlePageChange(page) ==
    /\ TableShown
    /\ page \in PageButtons
    /\ page <= MaxPage
    /\ table' = [table EXCEPT !.currentPage = page]
    /\ last' = [op |-> "page", page |-> page]
    /\ UNCHANGED << store, tasks, loading, error >>
    /\ TableFrame

\* handleRowsPerPageChange (lines 151-154).
handleRowsPerPageChange(value) ==
    /\ TableShown
    /\ table' = [table EXCEPT !.rowsPerPage = value, !.currentPage = 1]
    /\ last' = [op |-> "rows", value |-> value]
    /\ UNCHANGED << store, tasks, loading, error >>
    /\ TableFrame

\* handleDeleteTask (lines 157-164): the button of a row on screen.
handleDeleteTask(k) ==
    /\ TableShown
    /\ k \in 1..Len(currentTasks)
    /\ table' = [table EXCEPT !.taskToDelete = currentTasks[k],
                              !.showDeleteModal = TRUE]
    /\ last' = [op |-> "delete asked", id |-> currentTasks[k].id]
    /\ UNCHANGED << store, tasks, loading, error >>
    /\ TableFrame

\* handleCancelDelete (lines 199-202).
handleCancelDelete ==
    /\ ~loading /\ ~error
    /\ table.showDeleteModal
    /\ ~table.isDeleting
    /\ table' = [table EXCEPT !.taskToDelete = NoTask, !.showDeleteModal = FALSE]
    /\ last' = [op |-> "delete cancelled"]
    /\ UNCHANGED << store, tasks, loading, error >>
    /\ TableFrame

\* handleConfirmDelete up to await deleteTask (lines 167-172).
handleConfirmDelete ==
    /\ ~loading /\ ~error
    /\ table.showDeleteModal
    /\ ~table.isDeleting
    /\ table.taskToDelete.id # 0
    /\ table' = [table EXCEPT !.isDeleting = TRUE]
    /\ last' = [op |-> "delete confirmed", id |-> table.taskToDelete.id]
    /\ UNCHANGED << store, tasks, loading, error >>
    /\ TableFrame

\* handleConfirmDelete after its await (lines 173-195): the row is gone and
\* fetchTasks starts, or the request failed and the dialog stays.
DeleteSettled(ok) ==
    /\ table.isDeleting
    /\ IF ok /\ table.taskToDelete.id \in DOMAIN store
       THEN /\ store' = [i \in DOMAIN store \ {table.taskToDelete.id} |-> store[i]]
            /\ loading' = TRUE
            /\ error' = FALSE
            /\ table' = [table EXCEPT !.showDeleteModal = FALSE,
                                      !.taskToDelete = NoTask,
                                      !.isDeleting = FALSE]
            /\ last' = [op |-> "deleted", id |-> table.taskToDelete.id,
                        toast |-> "success"]
       ELSE /\ table' = [table EXCEPT !.isDeleting = FALSE]
            /\ last' = [op |-> "delete failed", id |-> table.taskToDelete.id,
                        toast |-> "error"]
            /\ UNCHANGED << store, loading, error >>
    /\ tasks' = tasks
    /\ TableFrame

(***************************************************************************)
(* Specification SpecTable: the tasks table over TableTasks rows.          *)
(***************************************************************************)
TableInit ==
    /\ now = 1
    /\ browserOffset = MelbourneOffset
    /\ store = [i \in 1..TableTasks |-> Task(i, "Pending", Absent)]
    /\ nextId = TableTasks + 1
    /\ handlers = << >>
    /\ tasks = << >>
    /\ loading = TRUE
    /\ error = FALSE
    /\ inflight = {}
    /\ sent = 0
    /\ last = Idle
    /\ ptask = NoTask
    /\ markResult = FALSE
    /\ resetResult = FALSE
    /\ planned = << >>
    /\ editingTask = NoTask
    /\ formData = NoForm
    /\ pass = NoPass
    /\ table = NoTable

TableNext ==
    \/ TableFetched
    \/ TableFetchFailed
    \/ TableRefetch
    \/ \E field \in SortFields : handleSort(field)
    \/ \E page \in 1..MaxPage : handlePageChange(page)
    \/ \E value \in rowsPerPageOptions : handleRowsPerPageChange(value)
    \/ \E k \in 1..TableTasks : handleDeleteTask(k)
    \/ handleCancelDelete
    \/ handleConfirmDelete
    \/ \E ok \in BOOLEAN : DeleteSettled(ok)

SpecTable == TableInit /\ [][TableNext]_vars

\* C30: while the table is on screen currentPage lies in 1..max(1,
\* totalPages), so a list that is not empty shows at least one row; sorting
\* and changing the rows per page put currentPage back to 1.
C30_CurrentPageInRange ==
    /\ []((~loading /\ ~error)
            => /\ table.currentPage >= 1
               /\ table.currentPage <= (IF totalPages > 1 THEN totalPages ELSE 1)
               /\ (tasks # << >> => currentTasks # << >>))
    /\ [][last'.op \in {"sort", "rows"} => table'.currentPage = 1]_vars

\* What does hold: currentPage is never below 1, and sorting and changing
\* the rows per page put it back to 1.
CurrentPageResets ==
    /\ [](table.currentPage >= 1)
    /\ [][last'.op \in {"sort", "rows"} => table'.currentPage = 1]_vars

====
